---- MODULE Spec2Model ----
(***************************************************************************)
(* A model of the wasm-game engine: the bit-packed Board (board.rs) and    *)
(* the physics of the two balls (game.rs).                                 *)
(*                                                                         *)
(* Coordinates (f32 in the source) are modelled as exact rationals: every  *)
(* coordinate is an integer number of 1/SCALE pixels, SCALE chosen so that *)
(* the displacement of Movement::apply is an integer for every angle,      *)
(* speed and whole number of milliseconds.  Rounding of f32 is therefore   *)
(* not part of the model.                                                  *)
(*                                                                         *)
(* A 64-bit word of the board is modelled as the set of its set bits.      *)
(***************************************************************************)
EXTENDS Integers, Sequences, FiniteSets, TLC

VARIABLES
    board,          \* Game.board / Board: [size, state]
    viewport_size,  \* Game.viewport_size: [x, y]
    time,           \* Game.time
    cell_size,      \* Game.cell_size: [x, y]
    ball_radius,    \* Game.ball_radius
    lit_ball,       \* Game.lit_ball: [pos, mov]
    dark_ball,      \* Game.dark_ball: [pos, mov]
    outcome,        \* how the last call ended (a panic is an outcome)
    arg,            \* the arguments of the last call
    log             \* what the last call did, step by step (history only)

vars == <<board, viewport_size, time, cell_size, ball_radius,
          lit_ball, dark_ball, outcome, arg, log>>

game == <<board, viewport_size, time, cell_size, ball_radius,
          lit_ball, dark_ball>>

----------------------------------------------------------------------------
(* board.rs                                                                *)

ROW_PART_SIZE == 64

\* RawRow = [u64; 4]
ROW_PARTS == 4

\* RawState = [RawRow; 256]
RAW_ROWS == 256

\* Index = u8
INDEX_MAX == 255

Lit == "Lit"
Dark == "Dark"

\* The element of a one-element set.  A value named by binding it as the
\* element of {value} is computed once, however often the name is used.
The(S) == CHOOSE x \in S : TRUE

Min(a, b) == IF a < b THEN a ELSE b
Max(a, b) == IF a > b THEN a ELSE b

\* [[0u64; 4]; 256]
ZeroState == [r \in 0..(RAW_ROWS - 1) |-> [p \in 0..(ROW_PARTS - 1) |-> {}]]

\* A mutant of part_and_bit_index: the word index is forgotten.
part_and_bit_index_first_word(col_index) ==
    [part |-> 0, bit |-> Min(ROW_PART_SIZE, col_index % ROW_PART_SIZE)]

part_and_bit_index(col_index) ==
    LET part_index == col_index \div ROW_PART_SIZE
    IN  [part |-> part_index,
         bit  |-> Min(ROW_PART_SIZE, col_index - part_index * 64)]

\* The bits of a u64.
Bits == 0..(ROW_PART_SIZE - 1)

\* word + (1 << bit) on a u64 held as the set of its set bits; a carry out
\* of bit 63 is lost.
RECURSIVE AddBit(_, _)
AddBit(word, bit) ==
    IF bit >= ROW_PART_SIZE THEN word
    ELSE IF bit \in word THEN AddBit({b \in Bits : b \in word /\ b # bit}, bit + 1)
    ELSE {b \in Bits : b \in word \/ b = bit}

\* word ^ (1 << bit)
XorBit(word, bit) ==
    IF bit \in word THEN {b \in Bits : b \in word /\ b # bit}
    ELSE {b \in Bits : b \in word \/ b = bit}

\* word & (1 << bit) > 0
TestBit(word, bit) == bit \in word

\* The inner loop of StateOps::initial over the columns from..to-1, in
\* increasing order.  The range is halved, and the lower half is computed
\* before the upper half is entered, to keep the evaluation shallow.
RECURSIVE LightRow(_, _, _)
LightRow(row, from, to) ==
    IF from >= to THEN row
    ELSE IF to = from + 1
    THEN LET pb == part_and_bit_index(from)
         IN  [row EXCEPT ![pb.part] = AddBit(@, pb.bit)]
    ELSE LET mid   == (from + to) \div 2
             lower == LightRow(row, from, mid)
         IN  IF lower = lower THEN LightRow(lower, mid, to) ELSE row

\* A mutant of max_cell_to_lit: odd rows of an odd board get no extra cell.
max_cell_to_lit_even(size, row_index) == size \div 2

max_cell_to_lit(size, row_index) ==
    IF size % 2 > 0 /\ row_index % 2 > 0 THEN size \div 2 + 1 ELSE size \div 2

StateOps_initial(size) ==
    [row_index \in 0..(RAW_ROWS - 1) |->
        IF row_index < size
        THEN LightRow(ZeroState[row_index], 0, max_cell_to_lit(size, row_index))
        ELSE ZeroState[row_index]]

StateOps_cell(row, col_index) ==
    LET pb == part_and_bit_index(col_index)
    IN  IF TestBit(row[pb.part], pb.bit) THEN Lit ELSE Dark

\* A mutant of StateOps_flip: the cell next to the addressed one, in the
\* same pair of columns, is flipped with it.
StateOps_flip_pair(row, col_index) ==
    LET pb    == part_and_bit_index(col_index)
        other == IF pb.bit % 2 = 0 THEN pb.bit + 1 ELSE pb.bit - 1
    IN  [row EXCEPT ![pb.part] = XorBit(XorBit(@, pb.bit), other)]

StateOps_flip(row, col_index) ==
    LET pb == part_and_bit_index(col_index)
    IN  [row EXCEPT ![pb.part] = XorBit(@, pb.bit)]

\* Board::new; the assertion size > 1 is the guard of the callers.
Board_new(size) == [size |-> size, state |-> StateOps_initial(size)]

\* A mutant of Board_cell_panics: Row::cell does not look at the column.
Board_cell_panics_row_only(b, row_index, col_index) == ~(row_index < b.size)

\* Board::row / Row::cell / Board::cell panic when an index is beyond size.
Board_cell_panics(b, row_index, col_index) ==
    ~(row_index < b.size) \/ ~(col_index < b.size)

Board_cell(b, row_index, col_index) ==
    StateOps_cell(b.state[row_index], col_index)

Board_flip_panics(b, row_index, col_index) ==
    ~(row_index < b.size) \/ ~(col_index < b.size)

Board_flip(b, row_index, col_index) ==
    [b EXCEPT !.state[row_index] = StateOps_flip(@, col_index)]

----------------------------------------------------------------------------
(* game.rs: coordinates and exact arithmetic                               *)

INITIAL_SPEED == 100

\* One pixel.  Movement::apply moves by (speed / INITIAL_SPEED) * ms / 2
\* times a component that is a multiple of 1/90.
SCALE == 2 * 90 * INITIAL_SPEED

Abs(a) == IF a < 0 THEN 0 - a ELSE a

\* Natural numbers beyond the range of the model checker's integers, as
\* little-endian sequences of digits in base BigBase without leading zeros.
BigBase == 10000

RECURSIVE ToBig(_)
ToBig(n) == IF n = 0 THEN <<>> ELSE <<n % BigBase>> \o ToBig(n \div BigBase)

RECURSIVE BigAddC(_, _, _)
BigAddC(a, b, carry) ==
    IF a = <<>> /\ b = <<>> THEN ToBig(carry)
    ELSE LET da == IF a = <<>> THEN 0 ELSE Head(a)
             db == IF b = <<>> THEN 0 ELSE Head(b)
             s  == da + db + carry
         IN  <<s % BigBase>> \o BigAddC(IF a = <<>> THEN a ELSE Tail(a),
                                       IF b = <<>> THEN b ELSE Tail(b),
                                       s \div BigBase)

BigAdd(a, b) == BigAddC(a, b, 0)

RECURSIVE BigMulDigit(_, _, _)
BigMulDigit(a, d, carry) ==
    IF a = <<>> THEN ToBig(carry)
    ELSE LET s == Head(a) * d + carry
         IN  <<s % BigBase>> \o BigMulDigit(Tail(a), d, s \div BigBase)

BigShift(a) == IF a = <<>> THEN a ELSE <<0>> \o a

RECURSIVE BigMul(_, _)
BigMul(a, b) ==
    IF a = <<>> \/ b = <<>> THEN <<>>
    ELSE BigAdd(IF Head(b) = 0 THEN <<>> ELSE BigMulDigit(a, Head(b), 0),
                BigShift(BigMul(a, Tail(b))))

RECURSIVE BigLess(_, _)
BigLess(a, b) ==
    IF Len(a) # Len(b) THEN Len(a) < Len(b)
    ELSE IF a = <<>> THEN FALSE
    ELSE LET n == Len(a)
         IN  IF a[n] # b[n] THEN a[n] < b[n]
             ELSE BigLess(SubSeq(a, 1, n - 1), SubSeq(b, 1, n - 1))

BigSquare(n) == BigMul(ToBig(Abs(n)), ToBig(Abs(n)))

----------------------------------------------------------------------------
(* game.rs: Movement                                                       *)

Horizontal == "Horizontal"
Vertical == "Vertical"
None == "None"

\* (x_component, y_component) of Movement::apply, in units of 1/90.
Direction(angle) ==
    LET a_component == angle % 90
        b_component == 90 - a_component
    IN  IF angle < 90 THEN [x |-> b_component, y |-> a_component]
        ELSE IF angle >= 90 /\ angle < 180
             THEN [x |-> 0 - a_component, y |-> b_component]
        ELSE IF angle >= 180 /\ angle < 270
             THEN [x |-> 0 - a_component, y |-> 0 - b_component]
        ELSE [x |-> a_component, y |-> 0 - b_component]

\* Movement::apply: SCALE * (speed / INITIAL_SPEED) * time_diff_ms / 2
\* * (component / 90) = speed * time_diff_ms * component.
Movement_apply(mov, time_diff_ms, position) ==
    LET d == Direction(mov.angle)
    IN  [x |-> position.x + mov.speed * time_diff_ms * d.x,
         y |-> position.y + mov.speed * time_diff_ms * d.y]

\* A mutant of Movement_bounce: a pure mirror reflection, without the skew.
Movement_bounce_mirror(mov, collision_type) ==
    [angle |-> IF collision_type = Horizontal
               THEN (540 - mov.angle) % 360
               ELSE (360 - mov.angle) % 360,
     speed |-> Min((mov.speed + 1) % 256, 2 * INITIAL_SPEED)]

\* A mutant of Movement_bounce: the speed is not clamped.
Movement_bounce_unclamped(mov, collision_type) ==
    LET speed_factor == (mov.speed * 3) \div INITIAL_SPEED
    IN  [angle |-> IF collision_type = Horizontal
                   THEN (540 - mov.angle + speed_factor) % 360
                   ELSE (360 - mov.angle + speed_factor) % 360,
         speed |-> (mov.speed + 1) % 256]

\* A mutant of Movement_bounce: speed_factor is taken from the speed after
\* the bounce.
Movement_bounce_factor_after(mov, collision_type) ==
    LET speed == Min((mov.speed + 1) % 256, 2 * INITIAL_SPEED)
        speed_factor == (speed * 3) \div INITIAL_SPEED
    IN  [angle |-> IF collision_type = Horizontal
                   THEN (540 - mov.angle + speed_factor) % 360
                   ELSE (360 - mov.angle + speed_factor) % 360,
         speed |-> speed]

\* The u16 subtraction of Movement::bounce goes below zero.
Movement_bounce_underflows(mov, collision_type) ==
    IF collision_type = Horizontal THEN mov.angle > 540 ELSE mov.angle > 360

\* Movement::bounce.  angle is a u16 (the subtraction must not go below
\* zero), speed a u8.
Movement_bounce(mov, collision_type) ==
    LET speed_factor == (mov.speed * 3) \div INITIAL_SPEED
    IN  [angle |-> IF collision_type = Horizontal
                   THEN (540 - mov.angle + speed_factor) % 360
                   ELSE (360 - mov.angle + speed_factor) % 360,
         speed |-> Min((mov.speed + 1) % 256, 2 * INITIAL_SPEED)]

----------------------------------------------------------------------------
(* game.rs: Collisions                                                     *)

\* A mutant of ClampFar: the body is put on the far edge itself.
ClampFar_on_edge(extent, radius) == extent - radius

\* viewport_size.x - ball_radius - 1.0 (and the same for y)
ClampFar(extent, radius) == extent - radius - SCALE

\* A mutant of Collisions_boundaries: an edge test on x that fired decides
\* the axis, whatever the tests on y did.
Collisions_boundaries_x_last(position, movement, radius, viewport) ==
    LET left   == position.x < radius
        x1     == IF left THEN radius ELSE position.x
        right  == x1 >= viewport.x - radius
        x2     == IF right THEN ClampFar(viewport.x, radius) ELSE x1
        top    == position.y < radius
        y1     == IF top THEN radius ELSE position.y
        bottom == y1 >= viewport.y - radius
        y2     == IF bottom THEN ClampFar(viewport.y, radius) ELSE y1
        collision_type == IF left \/ right THEN Horizontal
                          ELSE IF top \/ bottom THEN Vertical ELSE None
    IN  [pos     |-> [x |-> x2, y |-> y2],
         mov     |-> IF collision_type # None
                     THEN Movement_bounce(movement, collision_type)
                     ELSE movement,
         axis    |-> collision_type,
         bounces |-> IF collision_type # None THEN 1 ELSE 0,
         edges   |-> (IF left THEN <<"left">> ELSE <<>>)
                     \o (IF right THEN <<"right">> ELSE <<>>)
                     \o (IF top THEN <<"top">> ELSE <<>>)
                     \o (IF bottom THEN <<"bottom">> ELSE <<>>)]

\* Collisions::boundaries.  edges is the sequence of the edge tests that
\* fired, in test order; bounces counts the calls of Movement::bounce.
Collisions_boundaries(position, movement, radius, viewport) ==
    LET left   == position.x < radius
        x1     == IF left THEN radius ELSE position.x
        c1     == IF left THEN Horizontal ELSE None
        right  == x1 >= viewport.x - radius
        x2     == IF right THEN ClampFar(viewport.x, radius) ELSE x1
        c2     == IF right THEN Horizontal ELSE c1
        top    == position.y < radius
        y1     == IF top THEN radius ELSE position.y
        c3     == IF top THEN Vertical ELSE c2
        bottom == y1 >= viewport.y - radius
        y2     == IF bottom THEN ClampFar(viewport.y, radius) ELSE y1
        collision_type == IF bottom THEN Vertical ELSE c3
    IN  [pos     |-> [x |-> x2, y |-> y2],
         mov     |-> IF collision_type # None
                     THEN Movement_bounce(movement, collision_type)
                     ELSE movement,
         axis    |-> collision_type,
         bounces |-> IF collision_type # None THEN 1 ELSE 0,
         edges   |-> (IF left THEN <<"left">> ELSE <<>>)
                     \o (IF right THEN <<"right">> ELSE <<>>)
                     \o (IF top THEN <<"top">> ELSE <<>>)
                     \o (IF bottom THEN <<"bottom">> ELSE <<>>)]

\* A mutant of ToIndex: the cast wraps a negative quotient instead of
\* saturating.
ToIndex_wrapping(quotient) == quotient % 256

\* (box / cell_size).floor() as board::Index: the cast saturates.
ToIndex(quotient) == Max(0, Min(INDEX_MAX, quotient))

\* Twice the distance, on one axis, of the centre of cell index from p.
Distance2(index, cell_extent, p) == Abs((2 * index + 1) * cell_extent - 2 * p)

\* distance_sq < max_distance_sq, with max_distance =
\* (cell_size.x + cell_size.y) / 4 * 0.95 + ball_radius:
\* (d2x^2 + d2y^2) / 4 < (19 * (cx + cy) + 80 * r)^2 / 6400.
WithinThreshold(d2x, d2y, cell, radius) ==
    BigLess(BigMul(ToBig(1600), BigAdd(BigSquare(d2x), BigSquare(d2y))),
            BigSquare(19 * (cell.x + cell.y) + 80 * radius))

\* The four corners in the order of the two nested loops.
Corners(position, radius) ==
    << [x |-> position.x + radius, y |-> position.y + radius],
       [x |-> position.x + radius, y |-> position.y - radius],
       [x |-> position.x - radius, y |-> position.y + radius],
       [x |-> position.x - radius, y |-> position.y - radius] >>

\* A mutant of CornerStep: every cell of the other kind under a corner is
\* flipped, however far its centre is.
CornerStep_no_threshold(acc, box, position, radius, cell, kind) ==
    IF acc.panicked THEN acc
    ELSE LET cell_x == ToIndex(box.x \div cell.x)
             cell_y == ToIndex(box.y \div cell.y)
         IN  IF Board_cell_panics(acc.board, cell_y, cell_x)
             THEN [acc EXCEPT !.panicked = TRUE,
                              !.corners = Append(@, [row |-> cell_y, col |-> cell_x,
                                                     seen |-> None, flipped |-> FALSE])]
             ELSE LET at_kind == Board_cell(acc.board, cell_y, cell_x)
                      d2x     == Distance2(cell_x, cell.x, position.x)
                      d2y     == Distance2(cell_y, cell.y, position.y)
                      hit     == kind # at_kind
                  IN  [board   |-> IF hit THEN Board_flip(acc.board, cell_y, cell_x)
                                   ELSE acc.board,
                       collision_type |->
                           IF hit THEN (IF d2x < d2y THEN Vertical ELSE Horizontal)
                           ELSE acc.collision_type,
                       panicked |-> FALSE,
                       corners |-> Append(acc.corners,
                                          [row |-> cell_y, col |-> cell_x,
                                           seen |-> at_kind, flipped |-> hit])]

\* A mutant of CornerStep: the axis of the first flipped cell is kept.
CornerStep_first_axis(acc, box, position, radius, cell, kind) ==
    IF acc.panicked THEN acc
    ELSE LET cell_x == ToIndex(box.x \div cell.x)
             cell_y == ToIndex(box.y \div cell.y)
         IN  IF Board_cell_panics(acc.board, cell_y, cell_x)
             THEN [acc EXCEPT !.panicked = TRUE,
                              !.corners = Append(@, [row |-> cell_y, col |-> cell_x,
                                                     seen |-> None, flipped |-> FALSE])]
             ELSE LET at_kind == Board_cell(acc.board, cell_y, cell_x)
                      d2x     == Distance2(cell_x, cell.x, position.x)
                      d2y     == Distance2(cell_y, cell.y, position.y)
                      hit     == kind # at_kind
                                 /\ WithinThreshold(d2x, d2y, cell, radius)
                  IN  [board   |-> IF hit THEN Board_flip(acc.board, cell_y, cell_x)
                                   ELSE acc.board,
                       collision_type |->
                           IF hit /\ acc.collision_type = None
                           THEN (IF d2x < d2y THEN Vertical ELSE Horizontal)
                           ELSE acc.collision_type,
                       panicked |-> FALSE,
                       corners |-> Append(acc.corners,
                                          [row |-> cell_y, col |-> cell_x,
                                           seen |-> at_kind, flipped |-> hit])]

\* A mutant of CornerStep: a cell within the threshold is flipped whatever
\* its state.
CornerStep_any_kind(acc, box, position, radius, cell, kind) ==
    IF acc.panicked THEN acc
    ELSE LET cell_x == ToIndex(box.x \div cell.x)
             cell_y == ToIndex(box.y \div cell.y)
         IN  IF Board_cell_panics(acc.board, cell_y, cell_x)
             THEN [acc EXCEPT !.panicked = TRUE,
                              !.corners = Append(@, [row |-> cell_y, col |-> cell_x,
                                                     seen |-> None, flipped |-> FALSE])]
             ELSE LET at_kind == Board_cell(acc.board, cell_y, cell_x)
                      d2x     == Distance2(cell_x, cell.x, position.x)
                      d2y     == Distance2(cell_y, cell.y, position.y)
                      hit     == WithinThreshold(d2x, d2y, cell, radius)
                  IN  [board   |-> IF hit THEN Board_flip(acc.board, cell_y, cell_x)
                                   ELSE acc.board,
                       collision_type |->
                           IF hit THEN (IF d2x < d2y THEN Vertical ELSE Horizontal)
                           ELSE acc.collision_type,
                       panicked |-> FALSE,
                       corners |-> Append(acc.corners,
                                          [row |-> cell_y, col |-> cell_x,
                                           seen |-> at_kind, flipped |-> hit])]

\* One iteration of the loops of Collisions::board.
CornerStep(acc, box, position, radius, cell, kind) ==
    IF acc.panicked THEN acc
    ELSE LET cell_x == ToIndex(box.x \div cell.x)
             cell_y == ToIndex(box.y \div cell.y)
         IN  IF Board_cell_panics(acc.board, cell_y, cell_x)
             THEN [acc EXCEPT !.panicked = TRUE,
                              !.corners = Append(@, [row |-> cell_y, col |-> cell_x,
                                                     seen |-> None, flipped |-> FALSE])]
             ELSE LET at_kind == Board_cell(acc.board, cell_y, cell_x)
                      d2x     == Distance2(cell_x, cell.x, position.x)
                      d2y     == Distance2(cell_y, cell.y, position.y)
                      hit     == kind # at_kind
                                 /\ WithinThreshold(d2x, d2y, cell, radius)
                  IN  [board   |-> IF hit THEN Board_flip(acc.board, cell_y, cell_x)
                                   ELSE acc.board,
                       collision_type |->
                           IF hit THEN (IF d2x < d2y THEN Vertical ELSE Horizontal)
                           ELSE acc.collision_type,
                       panicked |-> FALSE,
                       corners |-> Append(acc.corners,
                                          [row |-> cell_y, col |-> cell_x,
                                           seen |-> at_kind, flipped |-> hit])]

RECURSIVE CornerLoop(_, _, _, _, _, _, _)
CornerLoop(acc, i, boxes, position, radius, cell, kind) ==
    IF i > Len(boxes) THEN acc
    ELSE The({ CornerLoop(next, i + 1, boxes, position, radius, cell, kind)
               : next \in {CornerStep(acc, boxes[i], position, radius, cell,
                                      kind)} })

\* A mutant of BounceAfterLoop: one bounce for every flipped cell.
BounceAfterLoop_each_flip(movement, acc) ==
    LET n == Cardinality({i \in 1..Len(acc.corners) : acc.corners[i].flipped})
        once == IF n > 0 THEN Movement_bounce(movement, acc.collision_type)
                ELSE movement
        twice == IF n > 1 THEN Movement_bounce(once, acc.collision_type) ELSE once
        thrice == IF n > 2 THEN Movement_bounce(twice, acc.collision_type) ELSE twice
    IN  [mov |-> IF n > 3 THEN Movement_bounce(thrice, acc.collision_type)
                 ELSE thrice,
         bounces |-> n]

\* The end of Collisions::board: bounce once, on the last recorded axis.
BounceAfterLoop(movement, acc) ==
    IF acc.collision_type # None
    THEN [mov |-> Movement_bounce(movement, acc.collision_type), bounces |-> 1]
    ELSE [mov |-> movement, bounces |-> 0]

\* Collisions::board.  A panic of Board::cell ends the call where it is.
BoardChecked(movement, acc) ==
    LET end == IF acc.panicked THEN [mov |-> movement, bounces |-> 0]
               ELSE BounceAfterLoop(movement, acc)
    IN  [board    |-> acc.board,
         mov      |-> end.mov,
         axis     |-> acc.collision_type,
         bounces  |-> end.bounces,
         panicked |-> acc.panicked,
         corners  |-> acc.corners]

Collisions_board(position, movement, radius, cell, b, kind) ==
    The({ BoardChecked(movement, acc)
          : acc \in {The({ CornerLoop(start, 1, boxes, position, radius, cell,
                                      kind)
                           : start \in {[board |-> b, collision_type |-> None,
                                         panicked |-> FALSE, corners |-> <<>>]},
                             boxes \in {Corners(position, radius)} })} })

----------------------------------------------------------------------------
(* game.rs: Game                                                           *)

\* Game::new.  The two assertions on cell_size are CanConstruct.
Game_new(b, start_time_ms, viewport) ==
    LET half_view == [x |-> viewport.x \div 2, y |-> viewport.y \div 2]
        cell      == [x |-> viewport.x \div b.size, y |-> viewport.y \div b.size]
    IN  [board         |-> b,
         time          |-> start_time_ms,
         viewport_size |-> viewport,
         cell_size     |-> cell,
         ball_radius   |-> (cell.x + cell.y) \div 4,
         lit_ball      |-> [pos |-> [x |-> half_view.x \div 2, y |-> half_view.y],
                            mov |-> [angle |-> 40, speed |-> INITIAL_SPEED]],
         dark_ball     |-> [pos |-> [x |-> half_view.x \div 2 + half_view.x,
                                     y |-> half_view.y],
                            mov |-> [angle |-> 220, speed |-> INITIAL_SPEED]]]

\* The assertions of Board::new and Game::new hold, and every division of
\* Game::new is exact in units of 1/SCALE pixel.
CanConstruct(size, viewport) ==
    /\ size > 1
    /\ size <= INDEX_MAX
    /\ viewport.x > size * SCALE
    /\ viewport.y > size * SCALE
    /\ viewport.x % (4 * size) = 0
    /\ viewport.y % (4 * size) = 0
    /\ (viewport.x \div size + viewport.y \div size) % 4 = 0

\* The body of the loop of Game::tick for one body.
ProcessBody(body, kind, b, time_diff_ms) ==
    The({ The({ The({
        [body     |-> [pos |-> bounded.pos, mov |-> checked.mov],
         board    |-> checked.board,
         panicked |-> checked.panicked,
         log      |-> [ran |-> TRUE, before |-> body, applied |-> applied,
                       bounded |-> bounded, checked |-> checked]]
        : checked \in {Collisions_board(bounded.pos, bounded.mov, ball_radius,
                                        cell_size, b, kind)} })
        : bounded \in {Collisions_boundaries(applied, body.mov, ball_radius,
                                             viewport_size)} })
        : applied \in {Movement_apply(body.mov, time_diff_ms, body.pos)} })

NotRun(body) == [ran |-> FALSE, before |-> body]

\* A mutant of TickBodies: the Dark body is processed first.
TickBodies_dark_first(time_diff_ms) ==
    The({ The({
        [lit |-> l.body, dark |-> d.body, board |-> l.board,
         panicked |-> l.panicked, log |-> [lit |-> l.log, dark |-> d.log]]
        : l \in {IF d.panicked
                 THEN [body |-> lit_ball, board |-> d.board, panicked |-> TRUE,
                       log |-> NotRun(lit_ball)]
                 ELSE ProcessBody(lit_ball, Lit, d.board, time_diff_ms)} })
        : d \in {ProcessBody(dark_ball, Dark, board, time_diff_ms)} })

\* The loop of Game::tick: the Lit body, then the Dark body, on one board.
TickBodies(time_diff_ms) ==
    The({ The({
        [lit |-> l.body, dark |-> d.body, board |-> d.board,
         panicked |-> d.panicked, log |-> [lit |-> l.log, dark |-> d.log]]
        : d \in {IF l.panicked
                 THEN [body |-> dark_ball, board |-> l.board, panicked |-> TRUE,
                       log |-> NotRun(dark_ball)]
                 ELSE ProcessBody(dark_ball, Dark, l.board, time_diff_ms)} })
        : l \in {ProcessBody(lit_ball, Lit, board, time_diff_ms)} })

\* A mutant of TickAccepts: a tick at the stored time is accepted.
TickAccepts_equal(time_ms) == time_ms >= time

\* assert!(time_ms > self.time)
TickAccepts(time_ms) == time_ms > time

\* Game::tick.  A panic leaves the Game as it is at that point.
Tick(time_ms) ==
    /\ arg' = [op |-> "tick", time_ms |-> time_ms]
    /\ IF ~TickAccepts(time_ms)
       THEN /\ outcome' = "TimePanic"
            /\ log' = <<>>
            /\ UNCHANGED game
       ELSE \E r \in {TickBodies(time_ms - time)} :
                /\ time' = time_ms
                /\ lit_ball' = r.lit
                /\ dark_ball' = r.dark
                /\ board' = r.board
                /\ outcome' = IF r.panicked THEN "IndexPanic" ELSE "Ticked"
                /\ log' = r.log
                /\ UNCHANGED <<viewport_size, cell_size, ball_radius>>

----------------------------------------------------------------------------
(* The game driven by a caller that supplies any timestamp.                *)

\* The largest timestamp supplied.
MaxTime == 7

\* The largest start time.
MaxStart == 1

\* Board size and viewport (pixels) of the games constructed.
Games == { [size |-> 2, x |-> 4, y |-> 4],
           [size |-> 3, x |-> 6, y |-> 6],
           [size |-> 4, x |-> 8, y |-> 8],
           [size |-> 2, x |-> 3, y |-> 9] }

Viewport(g) == [x |-> g.x * SCALE, y |-> g.y * SCALE]

InitGame(g, start_time_ms) ==
    LET new == Game_new(Board_new(g.size), start_time_ms, Viewport(g))
    IN  /\ CanConstruct(g.size, Viewport(g))
        /\ board = new.board
        /\ time = new.time
        /\ viewport_size = new.viewport_size
        /\ cell_size = new.cell_size
        /\ ball_radius = new.ball_radius
        /\ lit_ball = new.lit_ball
        /\ dark_ball = new.dark_ball
        /\ outcome = "New"
        /\ arg = [op |-> "new", size |-> g.size, start_time_ms |-> start_time_ms]
        /\ log = <<>>

Init == \E g \in Games : \E start_time_ms \in 0..MaxStart :
            InitGame(g, start_time_ms)

Next == \E time_ms \in 0..MaxTime : Tick(time_ms)

Spec == Init /\ [][Next]_vars

----------------------------------------------------------------------------
(* The game driven by a loop that ticks at a fixed frame interval.         *)

\* The frame interval, in milliseconds.
FrameMs == 7

\* The number of frames played.
MaxFrames == 60

TickFrame ==
    /\ time + FrameMs <= MaxStart + MaxFrames * FrameMs
    /\ Tick(time + FrameMs)

NextFrame == TickFrame

SpecFrames == Init /\ [][NextFrame]_vars

----------------------------------------------------------------------------
(* The Board alone: Board::new, then calls of Board::flip and Board::cell.  *)

\* The number of calls made on one board.
MaxCalls == 2

\* The sizes of the boards constructed.
BoardSizes == {2, 3, 4, 5, 8, 9, 16, 64, 65, 128, 193, 255}

Origin == [x |-> 0, y |-> 0]

Still == [pos |-> Origin, mov |-> [angle |-> 0, speed |-> 0]]

\* No Game is around the board.
NoGame ==
    /\ viewport_size = Origin
    /\ time = 0
    /\ cell_size = Origin
    /\ ball_radius = 0
    /\ lit_ball = Still
    /\ dark_ball = Still

\* The indices tried on a board: the first one of each 64-bit word, those
\* around the first border of words, the last one, and the first one beyond
\* the board.
IndexInputs(size) ==
    { i \in {0, 63, 64, 65, 128, 192, size - 1} : i < size } \cup {size}

RowInputs(size) == {0, size - 1, size}

InitBoard ==
    /\ \E size \in BoardSizes : board = Board_new(size)
    /\ NoGame
    /\ outcome = "New"
    /\ arg = [op |-> "new", size |-> board.size]
    /\ log = [calls |-> 0]

\* Board::flip
Flip(row_index, col_index) ==
    /\ log.calls < MaxCalls
    /\ arg' = [op |-> "flip", row |-> row_index, col |-> col_index]
    /\ log' = [calls |-> log.calls + 1, before |-> board]
    /\ IF Board_flip_panics(board, row_index, col_index)
       THEN outcome' = "IndexPanic" /\ board' = board
       ELSE outcome' = "Flipped" /\ board' = Board_flip(board, row_index, col_index)
    /\ UNCHANGED <<viewport_size, time, cell_size, ball_radius, lit_ball, dark_ball>>

\* Board::cell
Cell(row_index, col_index) ==
    /\ log.calls < MaxCalls
    /\ arg' = [op |-> "cell", row |-> row_index, col |-> col_index]
    /\ IF Board_cell_panics(board, row_index, col_index)
       THEN /\ outcome' = "IndexPanic"
            /\ log' = [calls |-> log.calls + 1, before |-> board]
       ELSE /\ outcome' = "Read"
            /\ log' = [calls |-> log.calls + 1, before |-> board,
                       value |-> Board_cell(board, row_index, col_index)]
    /\ UNCHANGED game

NextBoard ==
    \E row_index \in RowInputs(board.size) :
       \E col_index \in IndexInputs(board.size) :
          \/ Flip(row_index, col_index)
          \/ Cell(row_index, col_index)

SpecBoard == InitBoard /\ [][NextBoard]_vars

----------------------------------------------------------------------------
(* Movement alone: a Movement is built, then apply and bounce are called.  *)

\* The longest time applied, in milliseconds.
MaxApplyMs == 2

\* The speeds a Movement is built with: those of the tests, the initial
\* speed, one in between, the last one below the maximum and the maximum.
Speeds == {0, 1, INITIAL_SPEED, 150, 2 * INITIAL_SPEED - 1, 2 * INITIAL_SPEED}

Angles == 0..359

NoBoard == [size |-> 0, state |-> <<>>]

InitMovement ==
    /\ \E angle \in Angles : \E speed \in Speeds :
          lit_ball = [pos |-> Origin, mov |-> [angle |-> angle, speed |-> speed]]
    /\ dark_ball = Still
    /\ board = NoBoard
    /\ viewport_size = Origin
    /\ time = 0
    /\ cell_size = Origin
    /\ ball_radius = 0
    /\ outcome = "New"
    /\ arg = [op |-> "movement"]
    /\ log = [calls |-> 0]

\* Movement::apply on the Lit body
Apply(time_diff_ms) ==
    /\ log.calls < MaxCalls
    /\ lit_ball' = [lit_ball EXCEPT
                      !.pos = Movement_apply(lit_ball.mov, time_diff_ms, @)]
    /\ outcome' = "Applied"
    /\ arg' = [op |-> "apply", time_diff_ms |-> time_diff_ms]
    /\ log' = [calls |-> log.calls + 1, before |-> lit_ball]
    /\ UNCHANGED <<board, viewport_size, time, cell_size, ball_radius, dark_ball>>

\* Movement::bounce on the Lit body
Bounce(collision_type) ==
    /\ log.calls < MaxCalls
    /\ lit_ball' = [lit_ball EXCEPT !.mov = Movement_bounce(@, collision_type)]
    /\ outcome' = "Bounced"
    /\ arg' = [op |-> "bounce", collision_type |-> collision_type]
    /\ log' = [calls |-> log.calls + 1, before |-> lit_ball]
    /\ UNCHANGED <<board, viewport_size, time, cell_size, ball_radius, dark_ball>>

NextMovement ==
    \/ \E time_diff_ms \in 1..MaxApplyMs : Apply(time_diff_ms)
    \/ \E collision_type \in {Horizontal, Vertical} : Bounce(collision_type)

SpecMovement == InitMovement /\ [][NextMovement]_vars

----------------------------------------------------------------------------
(* Collisions::board alone, called as the test should_not_find_collisions  *)
(* calls it: on a new board, with a radius and a cell size of its own.     *)

\* Positions are multiples of GridStep pixels, up to GridSteps of them.
GridStep == 5

GridSteps == 9

Grid == { k * GridStep * SCALE : k \in 1..GridSteps }

\* The radii tried, in pixels: that of a Game with these cells, and that of
\* the test.
Radii == {5, 10}

\* The board size and the cell size (pixels) of the test.
TestBoardSize == 5

TestCellSize == 10

InitCollisions ==
    /\ board = Board_new(TestBoardSize)
    /\ cell_size = [x |-> TestCellSize * SCALE, y |-> TestCellSize * SCALE]
    /\ viewport_size = [x |-> TestBoardSize * TestCellSize * SCALE,
                        y |-> TestBoardSize * TestCellSize * SCALE]
    /\ \E radius \in Radii : ball_radius = radius * SCALE
    /\ \E x \in Grid : \E y \in Grid :
          /\ lit_ball = [pos |-> [x |-> x, y |-> y],
                         mov |-> [angle |-> 90, speed |-> 1]]
          /\ dark_ball = lit_ball
    /\ time = 0
    /\ outcome = "New"
    /\ arg = [op |-> "collisions"]
    /\ log = [calls |-> 0]

\* Collisions::board on the body of kind
BoardCheck(kind) ==
    LET body == IF kind = Lit THEN lit_ball ELSE dark_ball
        checked == Collisions_board(body.pos, body.mov, ball_radius, cell_size,
                                    board, kind)
    IN  /\ log.calls < MaxCalls
        /\ board' = checked.board
        /\ lit_ball' = IF kind = Lit THEN [lit_ball EXCEPT !.mov = checked.mov]
                       ELSE lit_ball
        /\ dark_ball' = IF kind = Dark THEN [dark_ball EXCEPT !.mov = checked.mov]
                        ELSE dark_ball
        /\ outcome' = IF checked.panicked THEN "IndexPanic" ELSE "Checked"
        /\ arg' = [op |-> "board", kind |-> kind]
        /\ log' = [calls |-> log.calls + 1, before |-> body, checked |-> checked]
        /\ UNCHANGED <<viewport_size, time, cell_size, ball_radius>>

NextCollisions == \E kind \in {Lit, Dark} : BoardCheck(kind)

SpecCollisions == InitCollisions /\ [][NextCollisions]_vars

----------------------------------------------------------------------------
(* Properties of Game::tick                                                *)

Kinds == {Lit, Dark}

\* The log of one body in the last tick.
BodyLog(l, kind) == IF kind = Lit THEN l.lit ELSE l.dark

Ball(kind) == IF kind = Lit THEN lit_ball ELSE dark_ball

\* The cells a board check flipped at its corners before corner i.
FlippedBefore(corners, i) ==
    { <<corners[j].row, corners[j].col>> :
        j \in { k \in 1..(i - 1) : corners[k].flipped } }

Flipped(corners) == FlippedBefore(corners, Len(corners) + 1)

\* The cells of b1 whose state differs on b2.
Changed(b1, b2) ==
    { rc \in (0..(b1.size - 1)) \X (0..(b1.size - 1)) :
        Board_cell(b1, rc[1], rc[2]) # Board_cell(b2, rc[1], rc[2]) }

\* The corners at which a board check flipped a cell.
FlippingCorners(corners) == { i \in 1..Len(corners) : corners[i].flipped }

\* C1: a tick whose time is not strictly greater than the stored time
\* panics and leaves the whole Game unchanged; any other tick stores exactly
\* the supplied time, so the stored time only ever grows.
C1_TickTimeStrictlyIncreasing ==
    [][ arg'.op = "tick" =>
          /\ (arg'.time_ms <= time => outcome' = "TimePanic" /\ game' = game)
          /\ (arg'.time_ms > time => outcome' # "TimePanic" /\ time' = arg'.time_ms)
          /\ (outcome' # "TimePanic" => time' > time) ]_vars

\* A tick at exactly the stored time was rejected after a successful tick.
C1_Witness ==
    /\ outcome = "TimePanic"
    /\ arg.time_ms = time
    /\ time > MaxStart

\* C2: in a tick the Lit body's board check sees the board as it was before
\* the tick (but for its own flips), and the Dark body's board check sees
\* every cell the Lit body flipped in this tick as Lit already.
C2_LitBeforeDark ==
    [][ outcome' = "Ticked" =>
          LET lc == log'.lit.checked.corners
              dc == log'.dark.checked.corners
          IN  /\ \A i \in 1..Len(lc) :
                    lc[i].seen =
                        IF <<lc[i].row, lc[i].col>> \in FlippedBefore(lc, i) THEN Lit
                        ELSE Board_cell(board, lc[i].row, lc[i].col)
              /\ \A i \in 1..Len(dc) :
                    dc[i].seen =
                        IF <<dc[i].row, dc[i].col>> \in FlippedBefore(dc, i) THEN Dark
                        ELSE IF <<dc[i].row, dc[i].col>> \in Flipped(lc) THEN Lit
                        ELSE Board_cell(board, dc[i].row, dc[i].col)
              /\ \A c \in Flipped(dc) : Board_cell(board', c[1], c[2]) = Dark
              /\ \A c \in Flipped(lc) \ Flipped(dc) :
                    Board_cell(board', c[1], c[2]) = Lit ]_vars

\* A cell the Lit body flipped was flipped back by the Dark body in the same
\* tick.
C2_Witness ==
    /\ outcome = "Ticked"
    /\ Flipped(log.lit.checked.corners) \cap Flipped(log.dark.checked.corners) # {}

C6_AtMostTwoBounces ==
    [][ outcome' = "Ticked" =>
          \A kind \in Kinds :
             /\ BodyLog(log', kind).bounded.bounces <= 1
             /\ BodyLog(log', kind).checked.bounces <= 1
             /\ Ball(kind)'.mov.speed <= Ball(kind).mov.speed + 2 ]_vars

\* A body hit an edge and flipped several cells in one tick, and was
\* bounced twice.
C6_Witness ==
    /\ outcome = "Ticked"
    /\ \E kind \in Kinds :
          /\ BodyLog(log, kind).bounded.bounces = 1
          /\ BodyLog(log, kind).checked.bounces = 1
          /\ Cardinality(Flipped(BodyLog(log, kind).checked.corners)) >= 2
          /\ Ball(kind).mov.speed = BodyLog(log, kind).before.mov.speed + 2


\* The position is inside the viewport with the whole bounding square.
Inside(position) ==
    /\ ball_radius <= position.x
    /\ position.x < viewport_size.x - ball_radius
    /\ ball_radius <= position.y
    /\ position.y < viewport_size.y - ball_radius

\* The edge tests that fired, as a set.
EdgesFired(l) == { l.bounded.edges[i] : i \in 1..Len(l.bounded.edges) }

\* C14: the boundary check bounces once if an edge test fired and not at
\* all otherwise; the axis is Vertical if a test on y fired and Horizontal
\* if only tests on x fired; a body inside the viewport fires no test and
\* keeps its position, angle and speed; and a tick whose board checks flip
\* nothing leaves the board as it was, whatever the boundary checks did.
C14_BoundaryBounce ==
    [][ outcome' = "Ticked" =>
          /\ \A kind \in Kinds :
                LET l == BodyLog(log', kind)
                    e == EdgesFired(l)
                IN  /\ l.bounded.bounces = IF e # {} THEN 1 ELSE 0
                    /\ l.bounded.axis =
                          IF e \cap {"top", "bottom"} # {} THEN Vertical
                          ELSE IF e # {} THEN Horizontal ELSE None
                    /\ l.bounded.mov =
                          IF e # {} THEN Movement_bounce(l.before.mov, l.bounded.axis)
                          ELSE l.before.mov
                    /\ (e = {}) <=> Inside(l.applied)
                    /\ Inside(l.applied) => l.bounded.pos = l.applied
          /\ (\A kind \in Kinds :
                 FlippingCorners(BodyLog(log', kind).checked.corners) = {})
               => board' = board ]_vars

\* In a square viewport a body went through a corner of the viewport: a test
\* on x and a test on y fired, and it was bounced once, on Vertical; the
\* other body fired no test.
C14_Witness ==
    /\ outcome = "Ticked"
    /\ ball_radius < viewport_size.x - ball_radius
    /\ \E kind \in Kinds :
          /\ EdgesFired(BodyLog(log, kind)) \cap {"left", "right"} # {}
          /\ EdgesFired(BodyLog(log, kind)) \cap {"top", "bottom"} # {}
          /\ BodyLog(log, kind).bounded.bounces = 1
          /\ BodyLog(log, kind).bounded.axis = Vertical
    /\ \E kind \in Kinds : EdgesFired(BodyLog(log, kind)) = {}

\* The axis Collisions::board records when it flips the cell of corner c for
\* a body at position.
AxisAt(c, position) ==
    IF Distance2(c.col, cell_size.x, position.x)
         < Distance2(c.row, cell_size.y, position.y)
    THEN Vertical ELSE Horizontal

\* The last corner at which a board check flipped a cell.
LastFlipping(corners) ==
    CHOOSE i \in FlippingCorners(corners) :
        \A j \in FlippingCorners(corners) : j <= i

\* C15: the corners of a board check are those of (x+r, y+r), (x+r, y-r),
\* (x-r, y+r), (x-r, y-r) in this order; it bounces once if it flipped a
\* cell and not at all otherwise, on the axis of the last flipping corner:
\* Vertical if the centre of its cell is strictly nearer on x than on y,
\* Horizontal otherwise.
C15_BoardBounce ==
    [][ outcome' = "Ticked" =>
          \A kind \in Kinds :
             LET l  == BodyLog(log', kind)
                 p  == l.bounded.pos
                 c  == l.checked.corners
                 xs == << p.x + ball_radius, p.x + ball_radius,
                          p.x - ball_radius, p.x - ball_radius >>
                 ys == << p.y + ball_radius, p.y - ball_radius,
                          p.y + ball_radius, p.y - ball_radius >>
             IN  /\ \A i \in 1..4 :
                       /\ c[i].col = ToIndex(xs[i] \div cell_size.x)
                       /\ c[i].row = ToIndex(ys[i] \div cell_size.y)
                 /\ l.checked.bounces =
                       IF FlippingCorners(c) # {} THEN 1 ELSE 0
                 /\ FlippingCorners(c) = {} =>
                       /\ l.checked.axis = None
                       /\ l.checked.mov = l.bounded.mov
                 /\ FlippingCorners(c) # {} =>
                       /\ l.checked.axis = AxisAt(c[LastFlipping(c)], p)
                       /\ l.checked.mov =
                             Movement_bounce(l.bounded.mov,
                                             AxisAt(c[LastFlipping(c)], p)) ]_vars

\* A board check flipped two cells: the first one nearer on x than on y
\* (Vertical), the last one as far on x as on y, and the bounce was
\* Horizontal.
C15_Witness ==
    /\ outcome = "Ticked"
    /\ \E kind \in Kinds :
          LET l == BodyLog(log, kind)
              c == l.checked.corners
          IN  /\ Cardinality(FlippingCorners(c)) >= 2
              /\ \E i \in FlippingCorners(c) :
                    AxisAt(c[i], l.bounded.pos) = Vertical
              /\ Distance2(c[LastFlipping(c)].col, cell_size.x, l.bounded.pos.x)
                    = Distance2(c[LastFlipping(c)].row, cell_size.y,
                                l.bounded.pos.y)
              /\ l.checked.axis = Horizontal
              /\ l.checked.bounces = 1

\* The cells of b in state kind.
CellsOf(b, kind) ==
    { rc \in (0..(b.size - 1)) \X (0..(b.size - 1)) :
        Board_cell(b, rc[1], rc[2]) = kind }

\* What C16 says of one board check: of the body of kind, on board before,
\* leaving board after, with the corners it logged.
OnlyOpposingFlipped(kind, before, after, corners) ==
    /\ \A i \in FlippingCorners(corners) :
          /\ corners[i].seen # kind
          /\ Board_cell(before, corners[i].row, corners[i].col) # kind
          /\ Board_cell(after, corners[i].row, corners[i].col) = kind
          /\ \A j \in FlippingCorners(corners) :
                j # i => <<corners[j].row, corners[j].col>>
                           # <<corners[i].row, corners[i].col>>
    /\ CellsOf(after, kind) = CellsOf(before, kind) \cup Flipped(corners)
    /\ Cardinality(CellsOf(after, kind)) =
          Cardinality(CellsOf(before, kind))
             + Cardinality(FlippingCorners(corners))

\* C16: the board check of a body flips only cells that are not of the
\* state of the body, each of them to that state and none of them twice, so
\* the cells of that state after the check are those of before and the
\* flipped ones: the Lit check never leaves fewer Lit cells, the Dark check
\* never fewer Dark cells.
C16_FlipsOnlyOpposing ==
    [][ outcome' = "Ticked" =>
          /\ OnlyOpposingFlipped(Lit, board, log'.lit.checked.board,
                                 log'.lit.checked.corners)
          /\ OnlyOpposingFlipped(Dark, log'.lit.checked.board,
                                 log'.dark.checked.board,
                                 log'.dark.checked.corners) ]_vars

\* Two corners of one board check fell into the same cell: the first one
\* flipped it, the second one found it in the state of the body and left it.
C16_Witness ==
    /\ outcome = "Ticked"
    /\ \E kind \in Kinds :
          LET c == BodyLog(log, kind).checked.corners
          IN  \E i \in 1..4 : \E j \in 1..4 :
                 /\ i < j
                 /\ c[i].row = c[j].row
                 /\ c[i].col = c[j].col
                 /\ c[i].flipped
                 /\ c[j].seen = kind
                 /\ ~c[j].flipped

\* C17: after a tick both bodies are inside the viewport with their whole
\* bounding square: radius <= x < viewport.x - radius and radius <= y <
\* viewport.y - radius.
C17_BodiesInside ==
    outcome = "Ticked" => \A kind \in Kinds : Inside(Ball(kind).pos)

\* C3: the speed of each body stays within INITIAL_SPEED..2*INITIAL_SPEED,
\* never decreases, and grows by one for each bounce of the tick up to the
\* maximum, where it stays.
C3_SpeedBounded ==
    /\ [](\A kind \in Kinds :
             Ball(kind).mov.speed \in INITIAL_SPEED..(2 * INITIAL_SPEED))
    /\ [][ outcome' = "Ticked" =>
             \A kind \in Kinds :
                LET l == BodyLog(log', kind)
                IN  /\ Ball(kind)'.mov.speed >= Ball(kind).mov.speed
                    /\ Ball(kind)'.mov.speed < 256
                    /\ Ball(kind)'.mov.speed =
                          Min(Ball(kind).mov.speed + l.bounded.bounces
                                 + l.checked.bounces, 2 * INITIAL_SPEED) ]_vars

\* A body at the maximum speed was bounced and kept the maximum speed.
C3_Witness ==
    /\ outcome = "Ticked"
    /\ \E kind \in Kinds :
          /\ BodyLog(log, kind).before.mov.speed = 2 * INITIAL_SPEED
          /\ BodyLog(log, kind).bounded.bounces + BodyLog(log, kind).checked.bounces > 0
          /\ Ball(kind).mov.speed = 2 * INITIAL_SPEED

\* The body of kind was left of the left edge when the boundary check of the
\* last tick began.
LeftOfEdge(l) == l.applied.x < ball_radius

\* An edge test on y fired in the boundary check of the last tick.
YEdgeFired(l) ==
    \/ l.applied.y < ball_radius
    \/ l.applied.y >= viewport_size.y - ball_radius
    \/ ball_radius >= viewport_size.y - ball_radius

C12_FlipsPerTick ==
    [][ outcome' = "Ticked" =>
          LET lc == log'.lit.checked
              dc == log'.dark.checked
          IN  /\ Len(lc.corners) = 4
              /\ Len(dc.corners) = 4
              /\ Changed(board, lc.board) \subseteq Flipped(lc.corners)
              /\ Changed(lc.board, dc.board) \subseteq Flipped(dc.corners)
              /\ Cardinality(Changed(board, lc.board))
                    <= Cardinality(FlippingCorners(lc.corners))
              /\ Cardinality(Changed(lc.board, dc.board))
                    <= Cardinality(FlippingCorners(dc.corners))
              /\ Cardinality(Changed(board, lc.board)) <= 4
              /\ Cardinality(Changed(lc.board, dc.board)) <= 4
              /\ board' = dc.board
              /\ Cardinality(Changed(board, board')) <= 8 ]_vars

\* Each body flipped two cells in one tick.
C12_Witness ==
    /\ outcome = "Ticked"
    /\ Cardinality(FlippingCorners(log.lit.checked.corners)) >= 2
    /\ Cardinality(FlippingCorners(log.dark.checked.corners)) >= 2

----------------------------------------------------------------------------
(* Properties of Movement                                                  *)

\* C5: the displacement of apply at the angle of the body and at the next
\* angle differ, for one millisecond, by at most 1/90 of the distance moved
\* in each coordinate (speed units of 1/SCALE pixel).
C5_DirectionContinuous ==
    LET m    == lit_ball.mov
        next == [m EXCEPT !.angle = (m.angle + 1) % 360]
        p    == Movement_apply(m, 1, Origin)
        q    == Movement_apply(next, 1, Origin)
    IN  arg.op \in {"movement", "apply", "bounce"} =>
          /\ Abs(p.x - q.x) <= m.speed
          /\ Abs(p.y - q.y) <= m.speed

\* C11: a bounce turns the angle into the mirror reflection, (180 - angle)
\* for Horizontal and (-angle) for Vertical, plus speed_factor = speed * 3 /
\* INITIAL_SPEED of the speed before the bounce, modulo 360; the result is in
\* 0..359 and the unsigned subtraction does not go below zero.
C11_BounceAngle ==
    [][ arg'.op = "bounce" =>
          LET before == lit_ball.mov
              speed_factor == (before.speed * 3) \div INITIAL_SPEED
              mirror == IF arg'.collision_type = Horizontal
                        THEN 180 - before.angle
                        ELSE 0 - before.angle
          IN  /\ ~Movement_bounce_underflows(before, arg'.collision_type)
              /\ lit_ball'.mov.angle = (mirror + speed_factor) % 360
              /\ lit_ball'.mov.angle \in 0..359
              /\ speed_factor = 0 =>
                    lit_ball'.mov.angle = (mirror + 360) % 360 ]_vars

\* A Horizontal bounce of angle 359 at speed 199: speed_factor is 5 and the
\* angle becomes 186.
C11_Witness ==
    /\ arg.op = "bounce"
    /\ arg.collision_type = Horizontal
    /\ log.before.mov = [angle |-> 359, speed |-> 2 * INITIAL_SPEED - 1]
    /\ lit_ball.mov.angle = 186

----------------------------------------------------------------------------
(* Properties of the Board                                                 *)

\* The cells of a board.
Cells(b) == (0..(b.size - 1)) \X (0..(b.size - 1))

\* C8: a flip within the board toggles its cell, keeps the size, every
\* other row and every other cell of its row; the same flip once more gives
\* back the board as it was.
C8_FlipTogglesOneCell ==
    [][ outcome' = "Flipped" =>
          LET r == arg'.row
              c == arg'.col
          IN  /\ r < board.size /\ c < board.size
              /\ board'.size = board.size
              /\ Board_cell(board', r, c) # Board_cell(board, r, c)
              /\ \A r2 \in 0..(RAW_ROWS - 1) :
                    r2 # r => board'.state[r2] = board.state[r2]
              /\ \A c2 \in 0..(board.size - 1) :
                    c2 # c => Board_cell(board', r, c2) = Board_cell(board, r, c2)
              /\ (outcome = "Flipped" /\ arg = arg') => board' = log.before ]_vars

\* A cell in the last word of a row was flipped twice, and the board is as
\* it was constructed.
C8_Witness ==
    /\ outcome = "Flipped"
    /\ log.calls = 2
    /\ arg.col = 192
    /\ log.before # board
    /\ board = Board_new(board.size)

\* C9: on a new board a cell is Lit iff its column is below size / 2, or
\* the size and the row are odd and the column is size / 2.
C9_InitialPattern ==
    (outcome = "New" /\ arg.op = "new") =>
        \A rc \in Cells(board) :
            (Board_cell(board, rc[1], rc[2]) = Lit)
               <=> \/ rc[2] < board.size \div 2
                   \/ /\ board.size % 2 = 1
                      /\ rc[1] % 2 = 1
                      /\ rc[2] = board.size \div 2

\* A new board of size 255: column 127 is Lit in row 1 and Dark in row 0.
C9_Witness ==
    /\ outcome = "New"
    /\ arg.op = "new"
    /\ board.size = 255
    /\ Board_cell(board, 1, 127) = Lit
    /\ Board_cell(board, 0, 127) = Dark
    /\ Board_cell(board, 254, 126) = Lit

\* C13: Board::cell and Board::flip called with a row or a column that is
\* not below the size panic, also Row::cell on a row of the board with such a
\* column, and the board is then as it was.
C13_OutOfRangePanics ==
    [][ (/\ arg'.op \in {"cell", "flip"}
         /\ (arg'.row >= board.size \/ arg'.col >= board.size))
          => /\ outcome' = "IndexPanic"
             /\ board' = board ]_vars

\* On the largest board a flip of a cell was followed by a flip in the same
\* row at the column just beyond the board, which panicked and kept the
\* board of the first flip.
C13_Witness ==
    /\ outcome = "IndexPanic"
    /\ arg.op = "flip"
    /\ log.calls = 2
    /\ board.size = INDEX_MAX
    /\ arg.row < board.size
    /\ arg.col = board.size
    /\ board = log.before
    /\ board # Board_new(board.size)

----------------------------------------------------------------------------
(* Properties of Collisions::board                                         *)

\* The cell under a corner, and whether a body of kind at position collides
\* with it on board b.
CornerHits(b, box, position, kind) ==
    LET cell_x == ToIndex(box.x \div cell_size.x)
        cell_y == ToIndex(box.y \div cell_size.y)
    IN  /\ Board_cell(b, cell_y, cell_x) # kind
        /\ WithinThreshold(Distance2(cell_x, cell_size.x, position.x),
                           Distance2(cell_y, cell_size.y, position.y),
                           cell_size, ball_radius)

\* C10: a board check none of whose corners lies on a cell of the other
\* kind within the threshold flips no cell and leaves the angle and the
\* speed of the body as they were.
C10_NoCollisionNoChange ==
    [][ outcome' = "Checked" =>
          \A kind \in Kinds :
             LET body  == Ball(kind)
                 boxes == Corners(body.pos, ball_radius)
             IN  (/\ arg'.kind = kind
                  /\ \A i \in 1..4 : ~CornerHits(board, boxes[i], body.pos, kind))
                    => /\ board' = board
                       /\ Ball(kind)' = body ]_vars

\* The case of the test: radius 10, cells of 10 x 10, a Lit body at
\* (10, 15) on a new board of size 5; a corner is on a Dark cell, no cell was
\* flipped, and the angle and the speed are those of before.
C10_Witness ==
    /\ outcome = "Checked"
    /\ arg.kind = Lit
    /\ log.calls = 1
    /\ ball_radius = 10 * SCALE
    /\ lit_ball.pos = [x |-> 10 * SCALE, y |-> 15 * SCALE]
    /\ \E i \in 1..4 : log.checked.corners[i].seen = Dark
    /\ \A i \in 1..4 : ~log.checked.corners[i].flipped
    /\ board = Board_new(TestBoardSize)
    /\ lit_ball.mov = [angle |-> 90, speed |-> 1]

====
